---- MODULE Spec2Model ----
(***************************************************************************)
(* The routing-and-task-orchestration core of med-agent-hub:               *)
(* RouterAgentExecutor (direct strategy), ReactRouterExecutor, and the     *)
(* MedGemma / Clinical leaf executors, each driving an a2a TaskUpdater.    *)
(*                                                                         *)
(* One behaviour is one execute() invocation of one executor on one task,  *)
(* possibly interleaved (at execute's await points) with cancel() calls    *)
(* for the same task.                                                      *)
(***************************************************************************)
EXTENDS Integers, Sequences, FiniteSets, TLC

VARIABLES
    executor,      \* which executor's execute() this invocation runs
    ctxHasTask,    \* context.current_task was supplied by the caller
    pc,            \* position of execute()
    llm,           \* outcome of the classification LLM call (router only)
    routing,       \* routing_result (router only)
    card,          \* outcome of card discovery / client creation (router only)
    yielded,       \* decoded events consumed from client.send_message so far
    produced_any,  \* local flag of execute
    completed,     \* local flag of execute
    updTerminal,   \* execute's TaskUpdater has accepted a terminal status
    taskState,     \* state of the task as visible to the caller
    artifacts,     \* artifacts of the task, in order of appending
    trace,         \* every call made on a TaskUpdater / the event queue
    err,           \* str(e) of the exception being handled
    answer,        \* answer text of a leaf executor's model call
    cancels,       \* number of cancel() calls processed
    request,       \* what the request context carries for the dispatcher
    calls,         \* outbound calls made by execute so far
    cancelResult,  \* how the last cancel() call ended
    chat,          \* the /chat caller waiting on this request, if any
    reply,         \* what the router server answered to the post of /chat
    chatResponse,  \* what /chat returned to its caller
    focus,         \* which execute invocation the variables above belong to
    peer,          \* the local state of the other, suspended, invocation
    registry,      \* self.agents of the router executor
    session        \* the appointment conversation session (omrs-appo-service)

vars == <<executor, ctxHasTask, pc, llm, routing, card, yielded, produced_any,
          completed, updTerminal, taskState, artifacts, trace, err, answer,
          cancels, request, calls, cancelResult, chat, reply, chatResponse,
          focus, peer, registry, session>>

----------------------------------------------------------------------------
\* Bounds of the model.

\* Longest remote event stream considered.
MaxEvents == 2

\* Most cancel() calls processed for the task.
MaxCancels == 1

\* Most artifacts of a task in a reply given to /chat.
MaxReplyArtifacts == 2

\* Longest remote event stream of the end-to-end scenario.
MaxScenarioEvents == 3

\* Length of the remote streams of status events with message parts.
MaxMessageEvents == 2

\* Length of the remote stream of each of two concurrent invocations.
MaxConcurrentEvents == 1

\* Number of messages of one appointment conversation.
MaxMessages == 6

----------------------------------------------------------------------------
\* Task states and the updater.

TaskStates == {"submitted", "working", "completed", "failed", "cancelled"}

TerminalStates == {"completed", "failed", "cancelled"}

IsTerminal(s) == s \in TerminalStates

\* The id of the one task of a behaviour (task.id): the current task's when
\* the context carries one, else that of the task new_task creates.
TaskIdOf(invocation, hasTask) ==
    IF invocation = 1
    THEN IF hasTask THEN "task-1" ELSE "new-task-1"
    ELSE IF hasTask THEN "task-2" ELSE "new-task-2"

TaskId == TaskIdOf(focus, ctxHasTask)

\* The task's context id (task.context_id).
ContextIdOf(invocation, hasTask) ==
    IF invocation = 1
    THEN IF hasTask THEN "context-1" ELSE "new-context-1"
    ELSE IF hasTask THEN "context-2" ELSE "new-context-2"

ContextId == ContextIdOf(focus, ctxHasTask)

\* The context id cancel() hands to its updater: that of the cancel
\* request's message (context.message.context_id).
MessageContextId == "message-context"

\* One recorded call: who made it, what it was, for which task id and
\* context id, and whether it was accepted.
Entry(by, op, state, text, ok, at) ==
    [by |-> by, op |-> op, state |-> state, text |-> text, ok |-> ok, at |-> at,
     task |-> TaskId, context |-> ContextId]

\* TaskUpdater.update_status: a status offered to an updater that has already
\* accepted a terminal one is rejected (it raises).
UpdaterRejects(terminalReached) == terminalReached

\* TaskUpdater.add_artifact after the updater's terminal status: the outcomes
\* (append, or raise) both occur, depending on the updater.
ArtifactRejections(terminalReached) ==
    IF terminalReached THEN {FALSE, TRUE} ELSE {FALSE}

----------------------------------------------------------------------------
\* Agent registry (RouterAgentExecutor.__init__).

\* The registry as built by __init__.
AgentRegistry ==
    [medgemma |-> [url |-> "http://localhost:9101",
                   name |-> "MedGemma Medical Assistant"],
     clinical |-> [url |-> "http://localhost:9102",
                   name |-> "Clinical Research Agent"]]

\* self.agents as execute and _route_query read it.
agents == registry

\* No other invocation of execute is under way.
NoPeer == [pc |-> "absent"]

----------------------------------------------------------------------------
\* Routing classifier (RouterAgentExecutor._call_llm, _route_query).

\* A completion text, by what json.loads and the code after it can tell of it:
\*   t = "text"    not JSON at all
\*   t = "scalar"  JSON, but not an object (array, number, string, null)
\*   t = "object"  a JSON object; its "agent" member is absent, a string,
\*                 null, or an unhashable value (a list or object), and its
\*                 "reasoning" member is absent or a string.
Content(t, agentKind, agent, reasoningKind, reasoning) ==
    [raised |-> FALSE, t |-> t, agentKind |-> agentKind, agent |-> agent,
     reasoningKind |-> reasoningKind, reasoning |-> reasoning]

AgentNames == {"medgemma", "clinical", "unknown_agent"}

ObjectContents ==
    { Content("object", ak[1], ak[2], rk[1], rk[2]) :
        ak \in ({<<"absent", "">>, <<"null", "">>, <<"list", "">>}
                \cup {<<"string", a>> : a \in AgentNames}),
        rk \in {<<"absent", "">>, <<"string", "symptom question">>} }

Contents ==
    {Content("text", "absent", "", "absent", ""),
     Content("scalar", "absent", "", "absent", "")} \cup ObjectContents

\* What the HTTP exchange with the language model can do: the POST raises
\* (network error, timeout), raise_for_status raises (non-2xx), the body
\* lacks choices[0].message.content, or a completion text comes back.
LlmOutcomes ==
    {[kind |-> k, content |-> Content("text", "absent", "", "absent", "")] :
        k \in {"network_error", "http_status", "bad_body"}}
    \cup {[kind |-> "ok", content |-> c] : c \in Contents}

NoLlm == [kind |-> "none", content |-> Content("text", "absent", "", "absent", "")]

\* The text "Error analyzing query", which is not JSON.
ErrorAnalyzingQuery == Content("text", "absent", "", "absent", "")

\* An exception leaving the call.
Raised == [raised |-> TRUE, t |-> "text", agentKind |-> "absent", agent |-> "",
           reasoningKind |-> "absent", reasoning |-> ""]

\* _call_llm without its try/except.
CallLlmNoCatch(outcome) ==
    IF outcome.kind = "ok" THEN outcome.content ELSE Raised

\* _call_llm: the completion text, or "Error analyzing query" on any exception.
CallLlm(outcome) ==
    IF outcome.kind = "ok" THEN outcome.content ELSE ErrorAnalyzingQuery

Decision(agent, reasoning, url) ==
    [raised |-> FALSE, agent |-> agent, reasoning |-> reasoning, url |-> url]

NoDecision == Decision("", "", "")

RaisedDecision == [raised |-> TRUE, agent |-> "", reasoning |-> "", url |-> ""]

SynthesizedReasoning == "Default routing to medical agent due to orchestrator failure"

\* The except branch of _route_query.
ParseFailureDecision ==
    Decision("medgemma", SynthesizedReasoning, agents["medgemma"].url)

\* result.get("reasoning", "")
ReasoningOf(result) ==
    IF result.reasoningKind = "absent" THEN "" ELSE result.reasoning

\* The try block of _route_query on a parsed JSON object whose "agent" value
\* is hashable: result.get("agent", "medgemma"), the registry test, the dict.
DecisionOfObject(result) ==
    LET named == IF result.agentKind = "absent" THEN "medgemma" ELSE result.agent
        inRegistry == result.agentKind \in {"absent", "string"}
                        /\ named \in DOMAIN agents
        agent_name == IF inRegistry THEN named ELSE "medgemma"
    IN Decision(agent_name, ReasoningOf(result), agents[agent_name].url)

\* _route_query with the unknown-agent test dropped and the url looked up
\* without failing.
RouteQueryNoRegistryCheck(response) ==
    IF response.raised THEN RaisedDecision
    ELSE IF response.t # "object" \/ response.agentKind = "list"
    THEN ParseFailureDecision
    ELSE LET named == IF response.agentKind = "absent" THEN "medgemma"
                      ELSE IF response.agentKind = "string" THEN response.agent
                      ELSE "None"
         IN Decision(named, ReasoningOf(response),
                     IF named \in DOMAIN agents THEN agents[named].url ELSE "")

\* _route_query with an unknown agent name treated as a failure (the except
\* branch) instead of being replaced inside the try block.
RouteQueryUnknownRaises(response) ==
    IF response.raised THEN RaisedDecision
    ELSE IF response.t # "object" \/ response.agentKind = "list"
    THEN ParseFailureDecision
    ELSE IF response.agentKind \in {"string", "null"}
            /\ response.agent \notin DOMAIN agents
    THEN ParseFailureDecision
    ELSE DecisionOfObject(response)

\* _route_query with the except branch keeping the model's own reasoning.
RouteQueryNoSynthesis(response) ==
    IF response.raised THEN RaisedDecision
    ELSE IF response.t # "object" \/ response.agentKind = "list"
    THEN Decision("medgemma", ReasoningOf(response), agents["medgemma"].url)
    ELSE DecisionOfObject(response)

\* _route_query(query), given what _call_llm returned (or that it raised:
\* the call is made outside _route_query's own try).
\*   json.loads raises on text that is not JSON; result.get raises when the
\*   JSON value is not an object; `agent_name not in self.agents` raises on an
\*   unhashable agent value: all three land in the except branch.
RouteQuery(response) ==
    IF response.raised THEN RaisedDecision
    ELSE IF response.t # "object" \/ response.agentKind = "list"
    THEN ParseFailureDecision
    ELSE DecisionOfObject(response)


----------------------------------------------------------------------------
\* Remote stream events, as decoded by the relay loop of execute.

StatusEvent(state, texts) ==
    [kind |-> "status", state |-> state, texts |-> texts, name |-> "", parts |-> <<>>]

ArtifactEvent(name, parts) ==
    [kind |-> "artifact", state |-> "", texts |-> <<>>, name |-> name, parts |-> parts]

UnknownEvent ==
    [kind |-> "unknown", state |-> "", texts |-> <<>>, name |-> "", parts |-> <<>>]

\* The remote status events considered: every state without message text,
\* and a progress (working) status carrying one text part.
StatusEvents ==
    {StatusEvent(s, <<>>) : s \in TaskStates}
    \cup {StatusEvent("working", <<"remote text">>)}

Events ==
    StatusEvents
    \cup {ArtifactEvent("a1", <<"p1">>), ArtifactEvent("a2", <<"p2">>)}
    \cup {UnknownEvent}

\* The texts of the text parts a status message may carry: none, an empty
\* one, and non-empty ones with an empty one before or between them.
TextLists ==
    {<<>>, <<"">>, <<"line 1">>, <<"line 1", "line 2">>,
     <<"line 1", "", "line 2">>, <<"", "line 1">>}

\* Status events of every state with every such message.
MessageEvents == {StatusEvent(s, ts) : s \in TaskStates, ts \in TextLists}

\* How an event arrives: itself (or first of a tuple), or as the result of a
\* SendStreamingMessageSuccessResponse.
WireForms == {"direct", "wrapped"}

NonEmpty(texts) == SelectSeq(texts, LAMBDA t : t # "")

\* A status text that joins every text part, the empty ones included.
StatusTextKeepsEmpty(e, agent) ==
    IF NonEmpty(e.texts) # <<>>
    THEN <<"joined">> \o e.texts
    ELSE <<"Routed to", agent, e.state>>

\* status_text of the relay loop.
StatusText(e, agent) ==
    IF NonEmpty(e.texts) # <<>>
    THEN <<"joined">> \o NonEmpty(e.texts)
    ELSE <<"Routed to", agent, e.state>>

Artifact(name, parts) == [name |-> name, parts |-> parts]

SummaryArtifact(agent) == Artifact("router_summary", <<"Routed to", agent>>)

Executors == {"router", "react", "medgemma", "clinical"}

\* The message of execute's first status update.
WorkingText(ex) ==
    CASE ex = "router" -> <<"Analyzing query and routing to appropriate agent...">>
      [] ex = "react" -> <<"ReAct Router is handling this request (placeholder).">>
      [] ex = "medgemma" -> <<"Processing your medical question...">>
      [] ex = "clinical" -> <<"Analyzing clinical research question...">>

\* A failed status that does not say what failed.
FailTextNoCause(ex, e) ==
    CASE ex = "router" -> <<"Routing failed">>
      [] ex = "react" -> <<"ReAct routing failed">>
      [] ex = "medgemma" ->
           <<"I encountered an error processing your medical question. Please try again. Error">>
      [] ex = "clinical" -> <<"Error processing clinical research question">>

\* The message of the except handler's failed status.
FailText(ex, e) ==
    CASE ex = "router" -> <<"Routing failed">> \o e
      [] ex = "react" -> <<"ReAct routing failed">> \o e
      [] ex = "medgemma" ->
           <<"I encountered an error processing your medical question. Please try again. Error">> \o e
      [] ex = "clinical" -> <<"Error processing clinical research question">> \o e

NoCard == [url |-> "", outcome |-> "none"]

TerminalReached == <<"task is already in a terminal state">>

----------------------------------------------------------------------------
\* DispatchingExecutor: the request context and the choice of strategy.

\* What the dispatcher looks at: whether context.message is set, what its
\* metadata is (None, an empty dict, a dict with entries), and the value
\* stored under "orchestrator_mode" ("absent": no such key; "null": None;
\* "other": any string that is neither "simple" nor "react").
Request(message, metadata, flag) ==
    [message |-> message, metadata |-> metadata, flag |-> flag]

Flags == {"absent", "null", "simple", "react", "other"}

Requests ==
    {Request(FALSE, "none", "absent"), Request(TRUE, "none", "absent"),
     Request(TRUE, "empty", "absent")}
    \cup {Request(TRUE, "dict", f) : f \in Flags}

\* A message without metadata, as a leaf agent receives it.
PlainRequest == Request(TRUE, "none", "absent")

\* The two modes a ChatRequest documents.
BaseRequests == {Request(TRUE, "dict", "simple"), Request(TRUE, "dict", "react")}

\* Which server's executor is entered.
EntryPoints == {"dispatcher", "medgemma", "clinical"}

\* mode = "simple"; if context.message and context.message.metadata:
\*     mode = context.message.metadata.get("orchestrator_mode", "simple")
OrchestratorMode(r) ==
    IF r.message /\ r.metadata = "dict"
    THEN IF r.flag = "absent" THEN "simple" ELSE r.flag
    ELSE "simple"

\* The strategy chosen by testing `mode != "simple"` instead.
StrategyUnlessSimple(r) ==
    IF OrchestratorMode(r) # "simple" THEN "react" ELSE "router"

\* if mode == "react": the ReAct executor, else: the direct router executor.
Strategy(r) ==
    IF OrchestratorMode(r) = "react" THEN "react" ELSE "router"

\* A cancel dispatched to the strategy that runs the task.
CancelStrategyActive(ex) == ex

\* DispatchingExecutor.cancel: always the direct router executor's cancel.
CancelStrategy(ex) == "router"

\* The fixed message of each strategy's cancel.
CancelMessage(strategy) ==
    IF strategy = "router"
    THEN <<"Query routing cancelled">>
    ELSE <<"ReAct routing task was cancelled.">>

\* Outbound calls of execute: classification LLM calls, card fetches,
\* clients created, send_message calls.
NoCalls == [classify |-> 0, card |-> 0, client |-> 0, send |-> 0]

----------------------------------------------------------------------------
\* The /chat endpoint: the router server's reply and what is made of it.

\* final_text = "(No content was returned from the agent network)"
Placeholder == "(No content was returned from the agent network)"

\* One element of an artifact's "parts" in the reply, by what chat looks at:
\* whether it has a "root" member, root's "kind", and whether root has a
\* "text" member and its value.
WirePart(root, kind, hasText, text) ==
    [root |-> root, kind |-> kind, hasText |-> hasText, text |-> text]

TextPart(t) == WirePart(TRUE, "text", TRUE, t)

WireParts ==
    {TextPart("the answer"), TextPart(""),
     WirePart(TRUE, "data", FALSE, ""),
     WirePart(TRUE, "text", FALSE, ""),
     WirePart(FALSE, "", FALSE, "")}

PartLists ==
    {<<>>} \cup {<<p>> : p \in WireParts} \cup {<<p, q>> : p, q \in WireParts}

ReplyArtifacts == {[parts |-> ps] : ps \in PartLists}

\* The bodies the post can return: a JSON-RPC result holding a task, a
\* JSON-RPC error (no "result" member), or a non-2xx status.
TaskReply(id, arts) == [kind |-> "task", id |-> id, artifacts |-> arts]

JsonRpcErrorReply == [kind |-> "jsonrpc_error", id |-> "", artifacts |-> <<>>]

HttpErrorReply == [kind |-> "http_error", id |-> "", artifacts |-> <<>>]

NoReply == [kind |-> "none", id |-> "", artifacts |-> <<>>]

Replies ==
    {TaskReply(TaskId, arts) :
        arts \in UNION {[1..n -> ReplyArtifacts] : n \in 0..MaxReplyArtifacts}}
    \cup {JsonRpcErrorReply, HttpErrorReply}

\* The task's artifacts as the reply carries them: every part a text part.
\* The router's summary artifact has one part (its text is kept in pieces).
WireArtifact(a) ==
    [parts |-> IF a.name = "router_summary"
               THEN <<TextPart(a.parts)>>
               ELSE [i \in 1..Len(a.parts) |-> TextPart(a.parts[i])]]

WireArtifacts(arts) == [i \in 1..Len(arts) |-> WireArtifact(arts[i])]

\* last_artifact = artifacts[-1]; parts = last_artifact.get("parts", []);
\* if parts: text_part = parts[0].get("root", {});
\* if text_part.get("kind") == "text":
\*     final_text = text_part.get("text", final_text)
LastArtifactText(arts) ==
    LET parts == arts[Len(arts)].parts
    IN IF Len(parts) = 0
       THEN Placeholder
       ELSE IF parts[1].root /\ parts[1].kind = "text" /\ parts[1].hasText
            THEN parts[1].text
            ELSE Placeholder

\* task_result = data.get("result", {});
\* artifacts = task_result.get("artifacts", []); if artifacts: ...
FinalText(r) ==
    IF r.kind # "task" \/ Len(r.artifacts) = 0
    THEN Placeholder
    ELSE LastArtifactText(r.artifacts)

\* correlation_id=task_result.get("id", "native")
CorrelationId(r) == IF r.kind = "task" THEN r.id ELSE "native"

\* return ChatResponse(response=final_text, correlation_id=...)
ChatResponse(text, id) ==
    [status |-> "200", response |-> text, correlation_id |-> id]

\* raise HTTPException(status_code=...)
HttpException(code) == [status |-> code, response |-> "", correlation_id |-> ""]

NoResponse == [status |-> "none", response |-> "", correlation_id |-> ""]

----------------------------------------------------------------------------
\* The appointment conversation (omrs-appo-service, ConversationManager).

\* ConversationState.
ConversationStates ==
    {"initial", "collecting_symptoms", "triage_assessment",
     "scheduling_appointment", "confirming_details", "completed", "cancelled"}

\* A session as the webhook creates it. `saved` is the state last written
\* by session_manager.save_session, `messages` the number of messages
\* process_message was called with.
NewSession ==
    [state |-> "initial", name |-> FALSE, triage |-> "none",
     dates |-> FALSE, times |-> FALSE, appointment |-> FALSE,
     saved |-> "initial", messages |-> 0]

\* The user messages considered.
UserMessages ==
    {"cancel", "STOP", " Yes ", "no", "I have a fever", "tomorrow", "2 pm",
     "tomorrow morning"}

\* message.lower().strip()
LowerStrip(m) ==
    CASE m = "STOP" -> "stop"
      [] m = " Yes " -> "yes"
      [] OTHER -> m

\* _is_cancel_command
IsCancelCommand(m) == LowerStrip(m) \in {"cancel", "stop", "quit", "exit", "end"}

\* _parse_scheduling_preferences: the message names a date, a time.
NamesDate(m) == m \in {"tomorrow", "tomorrow morning"}

NamesTime(m) == m \in {"2 pm", "tomorrow morning"}

\* session_manager.save_session(session)
SaveSession(s) == [s EXCEPT !.saved = s.state]

\* _perform_triage_assessment: what the session can be when it is over
\* or has raised. analyze_triage_data raises, returns nothing, or returns
\* data whose severity is missing, below 4, or 4 and above; the message
\* that follows is sent or the send raises.
PerformTriageAssessment(s) ==
    {s,
     SaveSession([s EXCEPT !.state = "collecting_symptoms"]),
     [s EXCEPT !.state = "collecting_symptoms"],
     [s EXCEPT !.triage = "unrated"],
     SaveSession([s EXCEPT !.triage = "urgent"]),
     [s EXCEPT !.triage = "urgent"],
     SaveSession([s EXCEPT !.triage = "routine", !.state = "scheduling_appointment"]),
     [s EXCEPT !.triage = "routine", !.state = "scheduling_appointment"]}

----------------------------------------------------------------------------
\* Initial state: execute() is about to be called.

InitOf(requests, entries, chats, replies, peers) ==
    /\ session = NewSession
    /\ focus = 1
    /\ peer \in peers
    /\ registry = AgentRegistry
    /\ executor \in entries
    /\ request \in (IF executor = "dispatcher" THEN requests ELSE {PlainRequest})
    /\ ctxHasTask \in (IF request.message THEN BOOLEAN ELSE {TRUE})
    /\ chat \in chats
    /\ reply \in replies
    /\ chatResponse = NoResponse
    /\ calls = NoCalls
    /\ cancelResult = "none"
    /\ pc = "start"
    /\ llm = NoLlm
    /\ routing = NoDecision
    /\ card = NoCard
    /\ yielded = <<>>
    /\ produced_any = FALSE
    /\ completed = FALSE
    /\ updTerminal = FALSE
    /\ taskState = IF ctxHasTask THEN "working" ELSE "none"
    /\ artifacts = <<>>
    /\ trace = <<>>
    /\ err = <<>>
    /\ answer = <<>>
    /\ cancels = 0

\* An a2a client calls the router server (simple or react mode) or a leaf
\* agent's server directly.
Init == InitOf(BaseRequests, EntryPoints, {"none"}, {NoReply}, {NoPeer})

----------------------------------------------------------------------------
\* TaskUpdater calls made by execute (`at` is the step making the call).

\* await updater.update_status(state, message), continuing at `next`; a
\* rejected update raises into the enclosing try, whose handler is `handler`.
ExecUpdateStatus(state, text, next, handler) ==
    IF UpdaterRejects(updTerminal)
    THEN /\ trace' = Append(trace, Entry("execute", "status", state, text, FALSE, pc))
         /\ pc' = handler
         /\ err' = TerminalReached
         /\ UNCHANGED <<updTerminal, taskState>>
    ELSE /\ trace' = Append(trace, Entry("execute", "status", state, text, TRUE, pc))
         /\ updTerminal' = IsTerminal(state)
         /\ taskState' = state
         /\ pc' = next
         /\ UNCHANGED err

\* await updater.add_artifact(parts, name=name), continuing at `next`.
\* `produced` is the value produced_any takes once the call has returned.
ExecAddArtifact(a, next, produced) ==
    \E rejected \in ArtifactRejections(updTerminal) :
        IF rejected
        THEN /\ trace' = Append(trace,
                    Entry("execute", "artifact", "", <<a.name>> \o a.parts, FALSE, pc))
             /\ pc' = "fail"
             /\ err' = TerminalReached
             /\ UNCHANGED <<artifacts, produced_any>>
        ELSE /\ trace' = Append(trace,
                    Entry("execute", "artifact", "", <<a.name>> \o a.parts, TRUE, pc))
             /\ artifacts' = Append(artifacts, a)
             /\ produced_any' = produced
             /\ pc' = next
             /\ UNCHANGED err

----------------------------------------------------------------------------
\* DispatchingExecutor.execute: hands the request to one strategy.
Dispatch ==
    /\ executor = "dispatcher"
    /\ pc = "start"
    /\ executor' = Strategy(request)
    /\ UNCHANGED <<ctxHasTask, pc, llm, routing, card, yielded, produced_any,
                   completed, updTerminal, taskState, artifacts, trace, err,
                   answer, cancels, request, calls, cancelResult, chat,
                   reply, chatResponse,
                   focus, peer, registry, session>>

----------------------------------------------------------------------------
\* execute(): the part every executor shares.

\* An entry that creates and enqueues a task whatever the context carries.
BeginAlwaysNewTask ==
    /\ pc = "start"
    /\ executor \in Executors
    /\ taskState' = "submitted"
    /\ trace' = Append(trace, Entry("execute", "task", "submitted", <<>>, TRUE, pc))
    /\ pc' = "working"
    /\ UNCHANGED <<executor, ctxHasTask, llm, routing, card, yielded, produced_any,
                   completed, updTerminal, artifacts, err, answer, cancels,
                   request, calls, cancelResult, chat,
                   reply, chatResponse,
                   focus, peer, registry, session>>

\* task = context.current_task; if not task: new_task + enqueue_event;
\* the TaskUpdater is constructed.
Begin ==
    /\ pc = "start"
    /\ executor \in Executors
    /\ IF ctxHasTask
       THEN UNCHANGED <<taskState, trace>>
       ELSE /\ taskState' = "submitted"
            /\ trace' = Append(trace, Entry("execute", "task", "submitted", <<>>, TRUE, pc))
    /\ pc' = "working"
    /\ UNCHANGED <<executor, ctxHasTask, llm, routing, card, yielded, produced_any,
                   completed, updTerminal, artifacts, err, answer, cancels,
                   request, calls, cancelResult, chat,
                   reply, chatResponse,
                   focus, peer, registry, session>>

\* The first statement of the try block: update_status(working, ...).
InitialWorking ==
    /\ pc = "working"
    /\ ExecUpdateStatus("working", WorkingText(executor),
                        CASE executor = "router" -> "route"
                          [] executor = "react" -> "react_artifact"
                          [] OTHER -> "leaf_call",
                        "fail")
    /\ UNCHANGED <<executor, ctxHasTask, llm, routing, card, yielded, produced_any,
                   completed, artifacts, answer, cancels,
                   request, calls, cancelResult, chat,
                   reply, chatResponse,
                   focus, peer, registry, session>>

\* The except handler with no status update (the failure is only logged).
FailNoStatus ==
    /\ pc = "fail"
    /\ pc' = "done"
    /\ UNCHANGED <<executor, ctxHasTask, llm, routing, card, yielded, produced_any,
                   completed, updTerminal, taskState, artifacts, trace, err,
                   answer, cancels,
                   request, calls, cancelResult, chat,
                   reply, chatResponse,
                   focus, peer, registry, session>>

\* except Exception as e: update_status(failed, "... failed: <e>").
\* The handler is not itself inside a try: a rejected update leaves execute.
Fail ==
    /\ pc = "fail"
    /\ ExecUpdateStatus("failed", FailText(executor, err), "done", "raised")
    /\ UNCHANGED <<executor, ctxHasTask, llm, routing, card, yielded, produced_any,
                   completed, artifacts, answer, cancels,
                   request, calls, cancelResult, chat,
                   reply, chatResponse,
                   focus, peer, registry, session>>

\* await updater.complete()
Complete ==
    /\ pc = "complete"
    /\ ExecUpdateStatus("completed", <<>>, "done", "fail")
    /\ UNCHANGED <<executor, ctxHasTask, llm, routing, card, yielded, produced_any,
                   completed, artifacts, answer, cancels,
                   request, calls, cancelResult, chat,
                   reply, chatResponse,
                   focus, peer, registry, session>>

----------------------------------------------------------------------------
\* RouterAgentExecutor.execute.

\* A classification that repeats the model call once when it failed.
RouteRetriesOnce ==
    /\ pc = "route"
    /\ executor = "router"
    /\ \E outcome \in LlmOutcomes :
        /\ llm' = outcome
        /\ calls' = [calls EXCEPT !.classify = @ + (IF outcome.kind = "ok" THEN 1 ELSE 2)]
        /\ LET d == RouteQuery(CallLlm(outcome))
           IN IF d.raised
              THEN /\ pc' = "fail"
                   /\ err' = <<"classification failed">>
                   /\ UNCHANGED routing
              ELSE /\ routing' = d
                   /\ pc' = "resolve"
                   /\ UNCHANGED err
    /\ UNCHANGED <<executor, ctxHasTask, card, yielded, produced_any, completed,
                   updTerminal, taskState, artifacts, trace, answer, cancels,
                   request, cancelResult, chat,
                   reply, chatResponse,
                   focus, peer, registry, session>>

\* routing_result = await self._route_query(query)
RouteWith(outcomes) ==
    /\ pc = "route"
    /\ executor = "router"
    /\ calls' = [calls EXCEPT !.classify = @ + 1]
    /\ \E outcome \in outcomes :
        /\ llm' = outcome
        /\ LET d == RouteQuery(CallLlm(outcome))
           IN IF d.raised
              THEN /\ pc' = "fail"
                   /\ err' = <<"classification failed">>
                   /\ UNCHANGED routing
              ELSE /\ routing' = d
                   /\ pc' = "resolve"
                   /\ UNCHANGED err
    /\ UNCHANGED <<executor, ctxHasTask, card, yielded, produced_any, completed,
                   updTerminal, taskState, artifacts, trace, answer, cancels,
                   request, cancelResult, chat,
                   reply, chatResponse,
                   focus, peer, registry, session>>

Route == RouteWith(LlmOutcomes)

\* The classifier outcomes of two concurrent invocations: a decision for
\* the clinical agent, or a failed call (hence the default agent).
ConcurrentLlmOutcomes ==
    {[kind |-> "ok",
      content |-> Content("object", "string", "clinical", "string", "symptom question")],
     [kind |-> "network_error", content |-> Content("text", "absent", "", "absent", "")]}

RouteConcurrent == RouteWith(ConcurrentLlmOutcomes)

\* Ways in which get_agent_card() fails: the agent cannot be reached, the
\* fetch times out, or what comes back is not a valid card.
CardFetchFailures == {"unreachable", "card_timeout", "invalid_card"}

\* What discovery and client creation can meet for the routed url: the card
\* cannot be fetched, the card declares no JSON-RPC transport, or the card
\* declares one ("ok").
CardOutcomes == CardFetchFailures \cup {"unsupported_transport", "ok"}

\* A factory that creates a client for whatever transport the card declares.
ClientCreatedAnyTransport(outcome) == outcome \in {"unsupported_transport", "ok"}

\* ClientConfig(supported_transports=[TransportProtocol.jsonrpc],
\* use_client_preference=False); ClientFactory(client_config).create(card):
\* a client exists only for a fetched card that declares JSON-RPC.
ClientCreated(outcome) == outcome = "ok"

\* agent_card = await resolver.get_agent_card();
\* client = ClientFactory(client_config).create(agent_card); the message is
\* built, the flags are initialised and client.send_message(message) opens
\* the streamed call.
Resolve ==
    /\ pc = "resolve"
    /\ \E outcome \in CardOutcomes :
        /\ card' = [url |-> routing.url, outcome |-> outcome]
        /\ IF ClientCreated(outcome)
           THEN /\ pc' = "stream"
                /\ produced_any' = FALSE
                /\ completed' = FALSE
                /\ calls' = [calls EXCEPT !.card = @ + 1, !.client = @ + 1,
                                          !.send = @ + 1]
                /\ UNCHANGED err
           ELSE /\ pc' = "fail"
                /\ err' = <<outcome, routing.url>>
                /\ calls' = [calls EXCEPT !.card = @ + 1]
                /\ UNCHANGED <<produced_any, completed>>
    /\ UNCHANGED <<executor, ctxHasTask, llm, routing, yielded, updTerminal,
                   taskState, artifacts, trace, answer, cancels,
                   request, cancelResult, chat,
                   reply, chatResponse,
                   focus, peer, registry, session>>

\* The relay of an artifact event that does not set produced_any.
RelayArtifactNoFlag(e) ==
    /\ ExecAddArtifact(Artifact(e.name, e.parts), "stream", produced_any)
    /\ UNCHANGED <<completed, updTerminal, taskState>>

\* A relay that keeps the artifact's name and loses its parts.
RelayArtifactNameOnly(e) ==
    /\ ExecAddArtifact(Artifact(e.name, <<>>), "stream", TRUE)
    /\ UNCHANGED <<completed, updTerminal, taskState>>

\* isinstance(evt, TaskArtifactUpdateEvent): add_artifact(parts, name);
\* produced_any = True.
RelayArtifact(e) ==
    /\ ExecAddArtifact(Artifact(e.name, e.parts), "stream", TRUE)
    /\ UNCHANGED <<completed, updTerminal, taskState>>

\* A relay that forwards terminal statuses only and drops the others.
RelayStatusTerminalOnly(e) ==
    IF IsTerminal(e.state)
    THEN /\ ExecUpdateStatus(e.state, StatusText(e, routing.agent), "stream", "fail")
         /\ IF UpdaterRejects(updTerminal)
            THEN UNCHANGED <<produced_any, completed>>
            ELSE /\ produced_any' = TRUE
                 /\ completed' = (completed \/ e.state = "completed")
         /\ UNCHANGED artifacts
    ELSE UNCHANGED <<pc, err, produced_any, completed, updTerminal, taskState,
                     artifacts, trace>>

\* A relay that forwards the text of every status as progress (working).
RelayStatusAsWorking(e) ==
    /\ ExecUpdateStatus("working", StatusText(e, routing.agent), "stream", "fail")
    /\ IF UpdaterRejects(updTerminal)
       THEN UNCHANGED <<produced_any, completed>>
       ELSE /\ produced_any' = TRUE
            /\ completed' = (completed \/ e.state = "completed")
    /\ UNCHANGED artifacts

\* isinstance(evt, TaskStatusUpdateEvent): update_status(state, status_text);
\* produced_any = True; completed = True on a completed state.
RelayStatus(e) ==
    /\ ExecUpdateStatus(e.state, StatusText(e, routing.agent), "stream", "fail")
    /\ IF UpdaterRejects(updTerminal)
       THEN UNCHANGED <<produced_any, completed>>
       ELSE /\ produced_any' = TRUE
            /\ completed' = (completed \/ e.state = "completed")
    /\ UNCHANGED artifacts

\* A relay that counts an event of neither kind as output of the stream.
RelayUnknownCounts ==
    /\ produced_any' = TRUE
    /\ UNCHANGED <<pc, err, completed, updTerminal, taskState, artifacts, trace>>

\* Neither kind of event: nothing is done with it.
RelayUnknown ==
    UNCHANGED <<pc, err, produced_any, completed, updTerminal, taskState,
                artifacts, trace>>

\* One iteration of `async for event in client.send_message(message)`.
\* Both the direct branches and the SendStreamingMessageSuccessResponse
\* branch do the same with an event of the same kind.
RelayFrom(events, max) ==
    /\ pc = "stream"
    /\ Len(yielded) < max
    /\ \E e \in events, form \in WireForms :
        /\ yielded' = Append(yielded, e)
        /\ CASE e.kind = "artifact" -> RelayArtifact(e)
             [] e.kind = "status" -> RelayStatus(e)
             [] OTHER -> RelayUnknown
    /\ UNCHANGED <<executor, ctxHasTask, llm, routing, card, answer, cancels,
                   request, calls, cancelResult, chat,
                   reply, chatResponse,
                   focus, peer, registry, session>>

RelayEvent == RelayFrom(Events, MaxEvents)

\* What a well-behaved remote agent streams: progress, an artifact, and the
\* completed status.
ScenarioEvents ==
    {StatusEvent("working", <<>>), ArtifactEvent("a1", <<"p1">>),
     StatusEvent("completed", <<>>)}

\* One iteration of the relay loop over such a stream.
RelayScenarioEvent == RelayFrom(ScenarioEvents, MaxScenarioEvents)

\* One iteration of the relay loop over a stream of status events whose
\* messages carry text parts.
RelayMessageEvent == RelayFrom(MessageEvents, MaxMessageEvents)

\* One iteration of the relay loop of one of two concurrent invocations.
RelayConcurrentEvent == RelayFrom(ScenarioEvents, MaxConcurrentEvents)

\* The stream ends normally.
StreamEnd ==
    /\ pc = "stream"
    /\ pc' = "after"
    /\ UNCHANGED <<executor, ctxHasTask, llm, routing, card, yielded, produced_any,
                   completed, updTerminal, taskState, artifacts, trace, err,
                   answer, cancels,
                   request, calls, cancelResult, chat,
                   reply, chatResponse,
                   focus, peer, registry, session>>

\* The streamed call raises (connection error, timeout, non-2xx).
StreamRaise ==
    /\ pc = "stream"
    /\ pc' = "fail"
    /\ err' = <<"stream error">>
    /\ UNCHANGED <<executor, ctxHasTask, llm, routing, card, yielded, produced_any,
                   completed, updTerminal, taskState, artifacts, trace, answer,
                   cancels,
                   request, calls, cancelResult, chat,
                   reply, chatResponse,
                   focus, peer, registry, session>>

\* The remote agent goes silent: no further event and no end of stream.
StreamStall ==
    /\ pc = "stream"
    /\ pc' = "stalled"
    /\ UNCHANGED <<executor, ctxHasTask, llm, routing, card, yielded, produced_any,
                   completed, updTerminal, taskState, artifacts, trace, err,
                   answer, cancels, request, calls, cancelResult, chat,
                   reply, chatResponse,
                   focus, peer, registry, session>>

\* An http client built without a timeout: the silent stream is awaited
\* for ever.
StreamNoTimeout ==
    /\ pc = "stalled"
    /\ FALSE
    /\ UNCHANGED vars

\* self.http_client = httpx.AsyncClient(timeout=180.0): the read on the
\* silent stream times out and the streamed call raises.
StreamTimeout ==
    /\ pc = "stalled"
    /\ pc' = "fail"
    /\ err' = <<"timeout">>
    /\ UNCHANGED <<executor, ctxHasTask, llm, routing, card, yielded, produced_any,
                   completed, updTerminal, taskState, artifacts, trace, answer,
                   cancels, request, calls, cancelResult, chat,
                   reply, chatResponse,
                   focus, peer, registry, session>>

\* The code after the loop leaving completion to the remote stream alone.
AfterStreamNeverCompletes ==
    /\ pc = "after"
    /\ pc' = "done"
    /\ UNCHANGED <<executor, ctxHasTask, llm, routing, card, yielded, produced_any,
                   completed, updTerminal, taskState, artifacts, trace, err,
                   answer, cancels, request, calls, cancelResult, chat,
                   reply, chatResponse,
                   focus, peer, registry, session>>

\* The code after the loop with the `if not completed` test dropped.
AfterStreamAlways ==
    /\ pc = "after"
    /\ IF ~produced_any
       THEN /\ ExecAddArtifact(SummaryArtifact(routing.agent), "complete", produced_any)
       ELSE /\ pc' = "complete"
            /\ UNCHANGED <<artifacts, trace, err, produced_any>>
    /\ UNCHANGED <<executor, ctxHasTask, llm, routing, card, yielded, completed,
                   updTerminal, taskState, answer, cancels,
                   request, calls, cancelResult, chat,
                   reply, chatResponse,
                   focus, peer, registry, session>>

\* if not completed: if not produced_any: add_artifact(router_summary);
\* (then complete(), see Complete).
AfterStream ==
    /\ pc = "after"
    /\ IF completed
       THEN /\ pc' = "done"
            /\ UNCHANGED <<artifacts, trace, err, produced_any>>
       ELSE IF ~produced_any
       THEN ExecAddArtifact(SummaryArtifact(routing.agent), "complete", produced_any)
       ELSE /\ pc' = "complete"
            /\ UNCHANGED <<artifacts, trace, err, produced_any>>
    /\ UNCHANGED <<executor, ctxHasTask, llm, routing, card, yielded, completed,
                   updTerminal, taskState, answer, cancels,
                   request, calls, cancelResult, chat,
                   reply, chatResponse,
                   focus, peer, registry, session>>

\* A cancel() that returns without touching the task.
CancelNoUpdate ==
    /\ executor \in {"router", "react"}
    /\ pc # "start"
    /\ cancels < MaxCancels
    /\ cancels' = cancels + 1
    /\ cancelResult' = "returned"
    /\ UNCHANGED <<executor, ctxHasTask, pc, llm, routing, card, yielded,
                   produced_any, completed, updTerminal, taskState, artifacts,
                   trace, err, answer, request, calls, chat,
                   reply, chatResponse,
                   focus, peer, registry, session>>

\* DispatchingExecutor.cancel, hence RouterAgentExecutor.cancel: a
\* TaskUpdater of its own for context.current_task.id, then
\* update_status(cancelled, "Query routing cancelled"). It may run between
\* any two awaits of an execute that has been entered, and after it.
Cancel ==
    /\ executor \in {"router", "react"}
    /\ pc # "start"
    /\ cancels < MaxCancels
    /\ cancels' = cancels + 1
    /\ cancelResult' = "returned"
    /\ LET accepted == ~UpdaterRejects(FALSE)
       IN /\ taskState' = IF accepted THEN "cancelled" ELSE taskState
          /\ trace' = Append(trace,
                [Entry("cancel", "status", "cancelled",
                       CancelMessage(CancelStrategy(executor)), accepted, pc)
                    EXCEPT !.context = MessageContextId])
    /\ UNCHANGED <<executor, ctxHasTask, pc, llm, routing, card, yielded,
                   produced_any, completed, updTerminal, artifacts, err, answer,
                   request, calls, chat,
                   reply, chatResponse,
                   focus, peer, registry, session>>

\* What TaskUpdater.update_status does on an updater built with task id
\* None: the status event goes out carrying no task id, or building it
\* raises.
NoTaskUpdateOutcomes == {"emitted", "raised"}

\* RouterAgentExecutor.cancel for a context without a current task, before
\* any execute: the updater is built with task id None and
\* update_status(cancelled, "Query routing cancelled") is called all the same.
CancelNoTask ==
    /\ executor = "dispatcher"
    /\ pc = "start"
    /\ ~ctxHasTask
    /\ cancels < MaxCancels
    /\ cancels' = cancels + 1
    /\ \E outcome \in NoTaskUpdateOutcomes :
        IF outcome = "emitted"
        THEN /\ trace' = Append(trace,
                    [Entry("cancel", "status", "cancelled",
                           CancelMessage(CancelStrategy(executor)), TRUE, pc)
                        EXCEPT !.task = "None", !.context = MessageContextId])
             /\ cancelResult' = "returned"
        ELSE /\ cancelResult' = "raised"
             /\ UNCHANGED trace
    /\ UNCHANGED <<executor, ctxHasTask, pc, llm, routing, card, yielded,
                   produced_any, completed, updTerminal, taskState, artifacts,
                   err, answer, request, calls, chat,
                   reply, chatResponse,
                   focus, peer, registry, session>>

\* The error a leaf executor's cancel raises.
UnsupportedOperation == "UnsupportedOperationError"

\* A leaf cancel that marks the task cancelled like the router's does.
LeafCancelEmitsCancelled ==
    /\ executor \in {"medgemma", "clinical"}
    /\ pc # "start"
    /\ cancels < MaxCancels
    /\ cancels' = cancels + 1
    /\ cancelResult' = "returned"
    /\ taskState' = "cancelled"
    /\ trace' = Append(trace, Entry("cancel", "status", "cancelled",
                                    <<"cancelled">>, TRUE, pc))
    /\ UNCHANGED <<executor, ctxHasTask, pc, llm, routing, card, yielded,
                   produced_any, completed, updTerminal, artifacts, err, answer,
                   request, calls, chat,
                   reply, chatResponse,
                   focus, peer, registry, session>>

\* MedGemmaExecutor.cancel and ClinicalExecutor.cancel:
\* raise ServerError(error=UnsupportedOperationError(...)), nothing else.
LeafCancel ==
    /\ executor \in {"medgemma", "clinical"}
    /\ pc # "start"
    /\ cancels < MaxCancels
    /\ cancels' = cancels + 1
    /\ cancelResult' = UnsupportedOperation
    /\ UNCHANGED <<executor, ctxHasTask, pc, llm, routing, card, yielded,
                   produced_any, completed, updTerminal, taskState, artifacts,
                   trace, err, answer, request, calls, chat,
                   reply, chatResponse,
                   focus, peer, registry, session>>

----------------------------------------------------------------------------
\* ReactRouterExecutor.execute (placeholder strategy).

\* A placeholder strategy that completes without producing its artifact.
ReactNoArtifact ==
    /\ pc = "react_artifact"
    /\ pc' = "complete"
    /\ UNCHANGED <<executor, ctxHasTask, llm, routing, card, yielded, produced_any,
                   completed, updTerminal, taskState, artifacts, trace, err,
                   answer, cancels, request, calls, cancelResult, chat,
                   reply, chatResponse,
                   focus, peer, registry, session>>

\* add_artifact([final_response], name='react_final_response').
ReactArtifact ==
    /\ pc = "react_artifact"
    /\ ExecAddArtifact(Artifact("react_final_response", <<"placeholder response">>),
                       "complete", produced_any)
    /\ UNCHANGED <<executor, ctxHasTask, llm, routing, card, yielded, completed,
                   updTerminal, taskState, answer, cancels,
                   request, calls, cancelResult, chat,
                   reply, chatResponse,
                   focus, peer, registry, session>>

----------------------------------------------------------------------------
\* MedGemmaExecutor.execute and ClinicalExecutor.execute.

\* What the model call of a leaf executor can do: raise_for_status raises
\* HTTPStatusError, anything else raises, or a completion comes back that is
\* empty, mentions one of the executor's keywords, or does not.
LeafOutcomes == {"http_status_error", "error", "empty", "keyword", "plain"}

Apology == "I apologize, but I couldn't generate a response."

Disclaimer(ex) == IF ex = "medgemma" THEN "**Disclaimer:**" ELSE "**Note:**"

\* The answer after the empty-answer substitution and the appended disclaimer.
LeafAnswer(ex, outcome) ==
    CASE outcome = "empty" -> <<Apology, Disclaimer(ex)>>
      [] outcome = "plain" -> <<"answer", Disclaimer(ex)>>
      [] OTHER -> <<"answer naming a keyword">>

LeafArtifactName(ex) ==
    IF ex = "medgemma" THEN "medical_response" ELSE "clinical_analysis"

\* response = await self.http_client.post(...); raise_for_status(); the
\* answer is extracted and completed with the disclaimer.
LeafCall ==
    /\ pc = "leaf_call"
    /\ \E outcome \in LeafOutcomes :
        IF outcome \in {"http_status_error", "error"}
        THEN /\ pc' = "fail"
             /\ err' = <<outcome>>
             /\ UNCHANGED answer
        ELSE /\ answer' = LeafAnswer(executor, outcome)
             /\ pc' = "leaf_artifact"
             /\ UNCHANGED err
    /\ UNCHANGED <<executor, ctxHasTask, llm, routing, card, yielded, produced_any,
                   completed, updTerminal, taskState, artifacts, trace, cancels,
                   request, calls, cancelResult, chat,
                   reply, chatResponse,
                   focus, peer, registry, session>>

\* await updater.add_artifact([Part(root=TextPart(text=answer))], name=...)
LeafArtifact ==
    /\ pc = "leaf_artifact"
    /\ ExecAddArtifact(Artifact(LeafArtifactName(executor), answer),
                       "complete", produced_any)
    /\ UNCHANGED <<executor, ctxHasTask, llm, routing, card, yielded, completed,
                   updTerminal, taskState, answer, cancels,
                   request, calls, cancelResult, chat,
                   reply, chatResponse,
                   focus, peer, registry, session>>

----------------------------------------------------------------------------

Next ==
    \/ Dispatch
    \/ Begin
    \/ InitialWorking
    \/ Route
    \/ Resolve
    \/ RelayEvent
    \/ StreamEnd
    \/ StreamRaise
    \/ AfterStream
    \/ Complete
    \/ Fail
    \/ ReactArtifact
    \/ LeafCall
    \/ LeafArtifact
    \/ Cancel
    \/ LeafCancel

Spec == Init /\ [][Next]_vars

----------------------------------------------------------------------------
\* The /chat endpoint as the caller of the router server.

\* The router server answers the post once execute is over: with the task
\* when execute returned, and with a JSON-RPC error body or a non-2xx
\* status when execute raised.
RouterReply ==
    /\ reply = NoReply
    /\ chat # "none"
    /\ pc \in {"done", "raised"}
    /\ reply' \in (IF pc = "done"
                   THEN {TaskReply(TaskId, WireArtifacts(artifacts))}
                   ELSE {JsonRpcErrorReply, HttpErrorReply})
    /\ UNCHANGED <<executor, ctxHasTask, pc, llm, routing, card, yielded,
                   produced_any, completed, updTerminal, taskState, artifacts,
                   trace, err, answer, cancels, request, calls, cancelResult,
                   chat, chatResponse,
                   focus, peer, registry, session>>

\* A /chat that answers with the first artifact's text.
ChatRespondFirstArtifact ==
    /\ chat = "waiting"
    /\ reply # NoReply
    /\ IF reply.kind = "http_error"
       THEN /\ chat' = "error"
            /\ chatResponse' = HttpException("503")
       ELSE /\ chat' = "response"
            /\ chatResponse' =
                  ChatResponse(IF reply.kind # "task" \/ Len(reply.artifacts) = 0
                               THEN Placeholder
                               ELSE LastArtifactText(<<reply.artifacts[1]>>),
                               CorrelationId(reply))
    /\ UNCHANGED <<executor, ctxHasTask, pc, llm, routing, card, yielded,
                   produced_any, completed, updTerminal, taskState, artifacts,
                   trace, err, answer, cancels, request, calls, cancelResult,
                   reply,
                   focus, peer, registry, session>>

\* resp = requests.post(router_url, json=a2a_message, timeout=...) has
\* returned; resp.raise_for_status(); data = resp.json(); the final text is
\* extracted and ChatResponse(response, correlation_id) is returned. A
\* non-2xx status raises a RequestException: HTTP 503.
ChatRespond ==
    /\ chat = "waiting"
    /\ reply # NoReply
    /\ IF reply.kind = "http_error"
       THEN /\ chat' = "error"
            /\ chatResponse' = HttpException("503")
       ELSE /\ chat' = "response"
            /\ chatResponse' = ChatResponse(FinalText(reply), CorrelationId(reply))
    /\ UNCHANGED <<executor, ctxHasTask, pc, llm, routing, card, yielded,
                   produced_any, completed, updTerminal, taskState, artifacts,
                   trace, err, answer, cancels, request, calls, cancelResult,
                   reply,
                   focus, peer, registry, session>>

\* timeout=agent_config.chat_timeout_seconds: the post gives up (or cannot
\* connect); except requests.exceptions.RequestException: HTTP 503.
ChatTimeout ==
    /\ chat = "waiting"
    /\ chat' = "error"
    /\ chatResponse' = HttpException("503")
    /\ UNCHANGED <<executor, ctxHasTask, pc, llm, routing, card, yielded,
                   produced_any, completed, updTerminal, taskState, artifacts,
                   trace, err, answer, cancels, request, calls, cancelResult,
                   reply,
                   focus, peer, registry, session>>

\* A /chat request: the endpoint posts to the router server with metadata
\* carrying orchestrator_mode, and waits.
InitChat == InitOf(BaseRequests, {"dispatcher"}, {"waiting"}, {NoReply}, {NoPeer})

\* The steps of the dispatched execute, a silent remote agent included.
ExecuteStep ==
    \/ Dispatch
    \/ Begin
    \/ InitialWorking
    \/ Route
    \/ Resolve
    \/ RelayEvent
    \/ StreamEnd
    \/ StreamRaise
    \/ StreamStall
    \/ StreamTimeout
    \/ AfterStream
    \/ Complete
    \/ Fail
    \/ ReactArtifact

ChatStep ==
    \/ ChatRespond
    \/ ChatTimeout

NextChat ==
    \/ ExecuteStep
    \/ RouterReply
    \/ ChatStep

\* The event loop resumes execute whenever the call it awaits has returned,
\* raised or timed out, and the blocking post of /chat returns or times out.
SpecChat ==
    /\ InitChat
    /\ [][NextChat]_vars
    /\ WF_vars(ExecuteStep)
    /\ WF_vars(RouterReply)
    /\ WF_vars(ChatStep)

----------------------------------------------------------------------------
\* The dispatcher under every kind of request context, each strategy run
\* against a remote stream that carries no event.

InitDispatch == InitOf(Requests, {"dispatcher"}, {"none"}, {NoReply}, {NoPeer})

NextDispatch ==
    \/ Dispatch
    \/ Begin
    \/ InitialWorking
    \/ Route
    \/ Resolve
    \/ StreamEnd
    \/ AfterStream
    \/ Complete
    \/ Fail
    \/ ReactArtifact

SpecDispatch == InitDispatch /\ [][NextDispatch]_vars

----------------------------------------------------------------------------
\* The direct router against a well-behaved remote agent: streams of up to
\* MaxScenarioEvents progress, artifact and completed events that end
\* normally, and no cancel request.

InitScenario == InitOf({Request(TRUE, "dict", "simple")}, {"dispatcher"}, {"none"}, {NoReply}, {NoPeer})

NextScenario ==
    \/ Dispatch
    \/ Begin
    \/ InitialWorking
    \/ Route
    \/ Resolve
    \/ RelayScenarioEvent
    \/ StreamEnd
    \/ AfterStream
    \/ Complete
    \/ Fail

SpecScenario == InitScenario /\ [][NextScenario]_vars

----------------------------------------------------------------------------
\* The direct router relaying status events whose messages carry zero or
\* more text parts, some of them empty; no cancel request.

InitStatusRelay == InitOf({Request(TRUE, "dict", "simple")}, {"dispatcher"}, {"none"}, {NoReply}, {NoPeer})

NextStatusRelay ==
    \/ Dispatch
    \/ Begin
    \/ InitialWorking
    \/ Route
    \/ Resolve
    \/ RelayMessageEvent
    \/ StreamEnd
    \/ AfterStream
    \/ Complete
    \/ Fail

SpecStatusRelay == InitStatusRelay /\ [][NextStatusRelay]_vars

----------------------------------------------------------------------------
\* A cancel request that arrives for a context without a current task,
\* before the router server runs execute for it.

InitCancel == InitOf(BaseRequests, {"dispatcher"}, {"none"}, {NoReply}, {NoPeer})

NextCancel ==
    \/ CancelNoTask
    \/ Dispatch
    \/ Begin
    \/ InitialWorking
    \/ Route
    \/ Resolve
    \/ StreamEnd
    \/ AfterStream
    \/ Complete
    \/ Fail
    \/ ReactArtifact

SpecCancel == InitCancel /\ [][NextCancel]_vars

----------------------------------------------------------------------------
\* Two execute invocations of the one RouterAgentExecutor, on different
\* tasks, interleaved at their awaits. The variables of an invocation are
\* the locals of its coroutine; self.agents is the state both read.

\* The locals of the invocation in focus.
Locals ==
    [executor |-> executor, ctxHasTask |-> ctxHasTask, pc |-> pc, llm |-> llm,
     routing |-> routing, card |-> card, yielded |-> yielded,
     produced_any |-> produced_any, completed |-> completed,
     updTerminal |-> updTerminal, taskState |-> taskState,
     artifacts |-> artifacts, trace |-> trace, err |-> err, answer |-> answer,
     request |-> request, calls |-> calls]

\* A second invocation that has not been entered yet.
InitialPeers ==
    {[executor |-> "dispatcher", ctxHasTask |-> has, pc |-> "start",
      llm |-> NoLlm, routing |-> NoDecision, card |-> NoCard, yielded |-> <<>>,
      produced_any |-> FALSE, completed |-> FALSE, updTerminal |-> FALSE,
      taskState |-> IF has THEN "working" ELSE "none", artifacts |-> <<>>,
      trace |-> <<>>, err |-> <<>>, answer |-> <<>>,
      request |-> Request(TRUE, "dict", "simple"), calls |-> NoCalls] :
        has \in BOOLEAN}

\* A switch that leaves the relay flags where they are, as if they were
\* kept on the executor object.
SwitchKeepsFlags ==
    /\ peer # NoPeer
    /\ focus' = 3 - focus
    /\ peer' = Locals
    /\ executor' = peer.executor
    /\ ctxHasTask' = peer.ctxHasTask
    /\ pc' = peer.pc
    /\ llm' = peer.llm
    /\ routing' = peer.routing
    /\ card' = peer.card
    /\ yielded' = peer.yielded
    /\ updTerminal' = peer.updTerminal
    /\ taskState' = peer.taskState
    /\ artifacts' = peer.artifacts
    /\ trace' = peer.trace
    /\ err' = peer.err
    /\ answer' = peer.answer
    /\ request' = peer.request
    /\ calls' = peer.calls
    /\ UNCHANGED <<produced_any, completed, cancels, cancelResult, chat, reply,
                   chatResponse, registry, session>>

\* The invocation in focus is suspended at an await (or is over, or has not
\* been entered) and the event loop runs the other one: each coroutine keeps
\* its own locals.
Switch ==
    /\ peer # NoPeer
    /\ focus' = 3 - focus
    /\ peer' = Locals
    /\ executor' = peer.executor
    /\ ctxHasTask' = peer.ctxHasTask
    /\ pc' = peer.pc
    /\ llm' = peer.llm
    /\ routing' = peer.routing
    /\ card' = peer.card
    /\ yielded' = peer.yielded
    /\ produced_any' = peer.produced_any
    /\ completed' = peer.completed
    /\ updTerminal' = peer.updTerminal
    /\ taskState' = peer.taskState
    /\ artifacts' = peer.artifacts
    /\ trace' = peer.trace
    /\ err' = peer.err
    /\ answer' = peer.answer
    /\ request' = peer.request
    /\ calls' = peer.calls
    /\ UNCHANGED <<cancels, cancelResult, chat, reply, chatResponse, registry, session>>

InitConcurrent ==
    InitOf({Request(TRUE, "dict", "simple")}, {"dispatcher"}, {"none"}, {NoReply}, InitialPeers)

NextConcurrent ==
    \/ Switch
    \/ Dispatch
    \/ Begin
    \/ InitialWorking
    \/ RouteConcurrent
    \/ Resolve
    \/ RelayConcurrentEvent
    \/ StreamEnd
    \/ AfterStream
    \/ Complete
    \/ Fail

SpecConcurrent == InitConcurrent /\ [][NextConcurrent]_vars

----------------------------------------------------------------------------
\* ConversationManager.process_message, one action per branch: the cancel
\* command first, else the handler of the session's state. `sent` says
\* whether the WhatsApp send of the branch went through; when it raises,
\* process_message catches the exception and what was assigned before the
\* send stays on the session object, unsaved.

\* Everything that is not the conversation session.
routerVars ==
    <<executor, ctxHasTask, pc, llm, routing, card, yielded, produced_any,
      completed, updTerminal, taskState, artifacts, trace, err, answer,
      cancels, request, calls, cancelResult, chat, reply, chatResponse,
      focus, peer, registry>>

\* process_message was entered with message m, which is or is not a cancel
\* command, for a session in state st.
Receives(m, st, cancelCommand) ==
    /\ session.messages < MaxMessages
    /\ session.state = st
    /\ IsCancelCommand(m) = cancelCommand

Counted(s) == [s EXCEPT !.messages = @ + 1]

\* if self._is_cancel_command(user_message): _handle_cancellation(session)
HandleCancellation ==
    /\ \E m \in UserMessages, st \in ConversationStates, sent \in BOOLEAN :
        /\ Receives(m, st, TRUE)
        /\ session' = IF sent
                      THEN SaveSession([Counted(session) EXCEPT !.state = "cancelled"])
                      ELSE Counted(session)
    /\ UNCHANGED routerVars

\* _handle_initial_state
HandleInitialState ==
    /\ \E m \in UserMessages, sent \in BOOLEAN :
        /\ Receives(m, "initial", FALSE)
        /\ session' = IF sent
                      THEN SaveSession([Counted(session) EXCEPT
                                            !.state = "collecting_symptoms"])
                      ELSE Counted(session)
    /\ UNCHANGED routerVars

\* _handle_collecting_symptoms: the name first; then the model's reply and,
\* when _has_sufficient_symptoms_info, the triage assessment.
HandleCollectingSymptoms ==
    /\ \E m \in UserMessages, sent \in BOOLEAN, sufficient \in BOOLEAN :
        /\ Receives(m, "collecting_symptoms", FALSE)
        /\ IF ~session.name
           THEN session' = IF sent
                           THEN SaveSession([Counted(session) EXCEPT !.name = TRUE])
                           ELSE [Counted(session) EXCEPT !.name = TRUE]
           ELSE IF ~sent
                THEN session' = Counted(session)
                ELSE IF ~sufficient
                     THEN session' = SaveSession(Counted(session))
                     ELSE session' \in
                            PerformTriageAssessment(
                                [Counted(session) EXCEPT !.state = "triage_assessment"])
    /\ UNCHANGED routerVars

\* _handle_triage_assessment
HandleTriageAssessment ==
    /\ \E m \in UserMessages :
        /\ Receives(m, "triage_assessment", FALSE)
        /\ session' \in PerformTriageAssessment(Counted(session))
    /\ UNCHANGED routerVars

\* _handle_scheduling_appointment: preferences parsed from the message,
\* then _show_available_appointments or _ask_for_preferences.
HandleSchedulingAppointment ==
    /\ \E m \in UserMessages, sent \in BOOLEAN :
        /\ Receives(m, "scheduling_appointment", FALSE)
        /\ LET parsed == [Counted(session) EXCEPT
                              !.dates = @ \/ NamesDate(m),
                              !.times = @ \/ NamesTime(m)]
           IN session' =
                IF ~sent THEN parsed
                ELSE IF parsed.dates \/ parsed.times
                     THEN SaveSession([parsed EXCEPT !.state = "confirming_details"])
                     ELSE SaveSession(parsed)
    /\ UNCHANGED routerVars

\* _handle_confirming_details and _finalize_appointment. `created` says
\* whether openmrs_client.create_appointment went through, `finalized`
\* whether everything of _finalize_appointment up to the confirmation did.
HandleConfirmingDetails ==
    /\ \E m \in UserMessages, sent \in BOOLEAN, created \in BOOLEAN,
          finalized \in BOOLEAN :
        /\ Receives(m, "confirming_details", FALSE)
        /\ session' =
            IF LowerStrip(m) \in {"yes", "confirm", "correct", "ok"}
            THEN IF created /\ finalized
                 THEN SaveSession([Counted(session) EXCEPT
                                      !.appointment = TRUE, !.state = "completed"])
                 ELSE IF sent
                      THEN SaveSession([Counted(session) EXCEPT
                                           !.appointment = created,
                                           !.state = "completed"])
                      ELSE [Counted(session) EXCEPT !.appointment = created]
            ELSE IF LowerStrip(m) \in {"no", "change", "modify"}
                 THEN IF sent
                      THEN SaveSession([Counted(session) EXCEPT
                                           !.state = "scheduling_appointment"])
                      ELSE [Counted(session) EXCEPT !.state = "scheduling_appointment"]
                 ELSE IF sent THEN SaveSession(Counted(session))
                              ELSE Counted(session)
    /\ UNCHANGED routerVars

\* _handle_completed_state: a follow-up message, nothing else.
HandleCompletedState ==
    /\ \E m \in UserMessages :
        /\ Receives(m, "completed", FALSE)
        /\ session' = Counted(session)
    /\ UNCHANGED routerVars

\* _handle_cancelled_state: a restart hint, nothing else.
HandleCancelledState ==
    /\ \E m \in UserMessages :
        /\ Receives(m, "cancelled", FALSE)
        /\ session' = Counted(session)
    /\ UNCHANGED routerVars

InitConversation ==
    InitOf({Request(TRUE, "dict", "simple")}, {"dispatcher"}, {"none"}, {NoReply}, {NoPeer})

NextConversation ==
    \/ HandleCancellation
    \/ HandleInitialState
    \/ HandleCollectingSymptoms
    \/ HandleTriageAssessment
    \/ HandleSchedulingAppointment
    \/ HandleConfirmingDetails
    \/ HandleCompletedState
    \/ HandleCancelledState

SpecConversation == InitConversation /\ [][NextConversation]_vars

----------------------------------------------------------------------------
\* /chat on its own: the router server is a black box of which only the
\* reply to the post is given, and /chat turns it into its response.

InitChatParse ==
    InitOf({Request(TRUE, "dict", "simple")}, {"dispatcher"}, {"waiting"}, Replies, {NoPeer})

NextChatParse ==
    \/ ChatRespond
    \/ ChatTimeout

SpecChatParse == InitChatParse /\ [][NextChatParse]_vars

----------------------------------------------------------------------------
\* Derived views of the trace.

Indices == 1..Len(trace)

\* Status updates of execute that were accepted, hence emitted.
Emitted(i) ==
    trace[i].by = "execute" /\ trace[i].op = "status" /\ trace[i].ok

TerminalCount ==
    Cardinality({i \in Indices : Emitted(i) /\ IsTerminal(trace[i].state)})

CompletedCount ==
    Cardinality({i \in Indices : Emitted(i) /\ trace[i].state = "completed"})

\* A completed status of the remote stream was relayed.
RelayedCompleted ==
    \E i \in Indices : Emitted(i) /\ trace[i].at = "stream"
                        /\ trace[i].state = "completed"

\* complete() was called after the stream ended (accepted or not).
CompleteCalled ==
    \E i \in Indices : trace[i].by = "execute" /\ trace[i].at = "complete"

\* execute entered its except handler.
EnteredFail ==
    pc = "fail" \/ \E i \in Indices : trace[i].at = "fail"

Returned == pc \in {"done", "raised"}

YieldedOfKind(k) == SelectSeq(yielded, LAMBDA e : e.kind = k)

\* The artifacts the remote stream yielded, in arrival order.
YieldedArtifacts ==
    [i \in 1..Len(YieldedOfKind("artifact")) |->
        [name |-> YieldedOfKind("artifact")[i].name,
         parts |-> YieldedOfKind("artifact")[i].parts]]

YieldedCompleted ==
    \E i \in 1..Len(yielded) :
        yielded[i].kind = "status" /\ yielded[i].state = "completed"

----------------------------------------------------------------------------
\* Claims.

\* C1: once execute has emitted a terminal status for the task, the task's
\* state never changes again and no later status update is accepted, whether
\* or not cancel() runs for the same task.
C1_TerminalIsFinal ==
    [][updTerminal =>
        /\ taskState' = taskState
        /\ (Len(trace') > Len(trace) /\ trace'[Len(trace')].op = "status"
              => ~trace'[Len(trace')].ok)]_vars

\* C2: every execute invocation (router, ReAct, MedGemma, Clinical) emits
\* exactly one terminal status before it ends: never more than one at any
\* time, and one once execute has ended.
C2_ExactlyOneTerminal ==
    /\ TerminalCount <= 1
    /\ (Returned => TerminalCount = 1)

\* The router has ended after relaying a cancelled status of the remote
\* stream and having its own completion rejected.
C2_Witness ==
    /\ executor = "router"
    /\ pc = "raised"
    /\ cancels = 0
    /\ TerminalCount = 1
    /\ \E i \in 1..Len(yielded) : yielded[i].state = "cancelled"

\* C3: in one router execute at most one completed status is emitted, and
\* the completion after the stream is not called when a completed status of
\* the stream was relayed.
C3_AtMostOneCompleted ==
    executor = "router" =>
        /\ CompletedCount <= 1
        /\ ~(RelayedCompleted /\ CompleteCalled)

\* The router relayed a completed status of the stream and returned normally,
\* without calling complete() itself.
C3_Witness ==
    /\ executor = "router"
    /\ RelayedCompleted
    /\ pc = "done"
    /\ ~EnteredFail

\* C4: every routing decision names a registered agent and carries its url.
C4_DecisionInRegistry ==
    routing # NoDecision =>
        /\ routing.agent \in DOMAIN agents
        /\ routing.url = agents[routing.agent].url

\* A decision was made on a response naming an unregistered agent.
C4_Witness ==
    /\ routing # NoDecision
    /\ llm.kind = "ok"
    /\ llm.content.t = "object"
    /\ llm.content.agentKind = "string"
    /\ llm.content.agent = "unknown_agent"

\* C5: the classification never raises: once the model call has been made a
\* decision exists, and the except handler is never entered for it.
C5_ClassificationNeverRaises ==
    /\ (llm # NoLlm => routing # NoDecision /\ ~routing.raised)
    /\ err # <<"classification failed">>

\* The model call failed at the network level and execute went on to resolve.
C5_Witness ==
    /\ llm.kind \in {"network_error", "http_status", "bad_body"}
    /\ pc = "resolve"

\* The response is a JSON object whose agent is a name outside the registry.
NamesUnknownAgent ==
    /\ llm.kind = "ok"
    /\ llm.content.t = "object"
    /\ llm.content.agentKind = "string"
    /\ llm.content.agent \notin {"medgemma", "clinical"}

\* C6: a parsed response naming an unregistered agent selects medgemma and
\* keeps the response's own reasoning text ("" when it gives none).
C6_UnknownAgentKeepsReasoning ==
    NamesUnknownAgent =>
        /\ routing.agent = "medgemma"
        /\ routing.url = "http://localhost:9101"
        /\ routing.reasoning = IF llm.content.reasoningKind = "string"
                               THEN llm.content.reasoning
                               ELSE ""

C6_Witness ==
    /\ NamesUnknownAgent
    /\ llm.content.reasoningKind = "string"
    /\ routing.reasoning = "symptom question"
    /\ routing.agent = "medgemma"

\* The model call failed, or its text is not JSON.
LlmFailedOrUnparseable ==
    \/ llm.kind \in {"network_error", "http_status", "bad_body"}
    \/ llm.kind = "ok" /\ llm.content.t = "text"

\* The fallback decision with its synthesized reasoning, routed to medgemma.
FallbackRouted ==
    /\ routing.agent = "medgemma"
    /\ routing.reasoning = "Default routing to medical agent due to orchestrator failure"
    /\ routing.url = "http://localhost:9101"
    /\ (card # NoCard => card.url = "http://localhost:9101")

C8_ArtifactsRelayedInOrder ==
    executor = "router" /\ pc = "done" /\ ~EnteredFail /\ YieldedArtifacts # <<>> =>
        /\ artifacts = YieldedArtifacts
        /\ artifacts # <<>>

\* Two different artifacts arrived, a2 before a1, and execute returned.
C8_Witness ==
    /\ executor = "router"
    /\ pc = "done"
    /\ ~EnteredFail
    /\ Len(artifacts) = 2
    /\ artifacts[1].name = "a2"
    /\ artifacts[2].name = "a1"

\* C9: after execute returns from a stream with no artifact event and a
\* completed status, the task holds exactly one artifact, the summary naming
\* the routed agent.
C9_SummaryAfterRemoteCompleted ==
    /\ executor = "router"
    /\ pc = "done"
    /\ ~EnteredFail
    /\ YieldedArtifacts = <<>>
    /\ YieldedCompleted
    => artifacts = <<[name |-> "router_summary",
                      parts |-> <<"Routed to", routing.agent>>]>>

\* C10: when the router completes the task itself after the stream, the
\* task has at least one artifact at the completed transition.
C10_ArtifactAtOwnCompletion ==
    executor = "router" /\ pc = "complete" => Len(artifacts) >= 1

----------------------------------------------------------------------------
\* The relay loop seen from both ends.

\* The TaskUpdater calls execute made from inside the relay loop.
StreamCalls ==
    SelectSeq(trace, LAMBDA t : t.by = "execute" /\ t.at = "stream")

\* The status and artifact events consumed from the remote stream.
RelayedEvents ==
    SelectSeq(yielded, LAMBDA e : e.kind \in {"status", "artifact"})

\* The local call that corresponds to a remote event.
CallOf(e, agent) ==
    IF e.kind = "status"
    THEN [op |-> "status", state |-> e.state, text |-> StatusText(e, agent)]
    ELSE [op |-> "artifact", state |-> "", text |-> <<e.name>> \o e.parts]

\* C11: at every moment of the relay loop the TaskUpdater calls made inside
\* it are, one for one and in order, the status and artifact events consumed
\* from the remote stream so far (so each event is relayed before the next
\* one is consumed); a call is refused only after the updater has accepted
\* a terminal status.
C11_RelayInOrderUnbuffered ==
    executor = "router" =>
        /\ Len(StreamCalls) = Len(RelayedEvents)
        /\ \A i \in 1..Len(StreamCalls) :
            /\ [op |-> StreamCalls[i].op, state |-> StreamCalls[i].state,
                text |-> StreamCalls[i].text]
                    = CallOf(RelayedEvents[i], routing.agent)
            /\ ~StreamCalls[i].ok =>
                    \E j \in 1..(i - 1) :
                        /\ StreamCalls[j].ok
                        /\ StreamCalls[j].op = "status"
                        /\ IsTerminal(StreamCalls[j].state)

\* An artifact event then a status event, both relayed, the loop still open.
C11_Witness ==
    /\ pc = "stream"
    /\ Len(yielded) = 2
    /\ yielded[1].kind = "artifact"
    /\ yielded[2].kind = "status"
    /\ Len(StreamCalls) = 2
    /\ StreamCalls[1].op = "artifact" /\ StreamCalls[1].ok
    /\ StreamCalls[2].op = "status" /\ StreamCalls[2].ok

\* C12: whenever RouterAgentExecutor.execute has entered its except handler
\* and is over, it returned normally (no exception left it) and the handler's
\* failed status, with a message, was emitted; this includes failures that
\* happen after a terminal status.
C12_FailureRecordedNoEscape ==
    (executor = "router" /\ EnteredFail /\ Returned) =>
        /\ pc = "done"
        /\ \E i \in Indices :
            /\ Emitted(i)
            /\ trace[i].at = "fail"
            /\ trace[i].state = "failed"
            /\ trace[i].text # <<>>

\* cancel() was processed, and accepted, while execute was in flight past
\* its initial working update.
CancelledInFlight ==
    \E i \in Indices :
        /\ trace[i].by = "cancel"
        /\ trace[i].ok
        /\ trace[i].at \notin {"start", "working", "done", "raised"}

\* C13: once a cancel request has been processed for a task whose
\* RouterAgentExecutor.execute is in flight, the task is in a terminal state
\* and stays there: the relay that is still running moves it neither back to
\* working nor on to completed.
C13_CancelledStaysTerminal ==
    (executor = "router" /\ CancelledInFlight) =>
        taskState \notin {"working", "completed"}

AsksForReact ==
    request.message /\ request.metadata = "dict" /\ request.flag = "react"

\* Every call recorded so far was made by strategy `ex`, and by it alone.
OnlyStrategyRan(ex) ==
    /\ \A i \in Indices :
        /\ trace[i].by = "execute"
        /\ trace[i].at = "working" => trace[i].text = WorkingText(ex)
        /\ trace[i].at = "fail" => trace[i].text = FailText(ex, err)
    /\ ex = "react" => calls = NoCalls /\ llm = NoLlm /\ pc \notin {"route", "resolve", "stream", "after"}
    /\ ex = "router" => pc # "react_artifact"
                         /\ \A i \in 1..Len(artifacts) :
                                artifacts[i].name # "react_final_response"

\* C15: once DispatchingExecutor.execute has delegated, the strategy running
\* is the ReAct one exactly when the message metadata's orchestrator_mode is
\* "react" and the direct router otherwise (no message, no metadata, flag
\* absent, null or unrecognized), and everything done for the request is
\* done by that one strategy.
C15_OneStrategyPerRequest ==
    executor # "dispatcher" =>
        /\ executor = (IF AsksForReact THEN "react" ELSE "router")
        /\ OnlyStrategyRan(executor)

\* A request whose flag is an unrecognized value, run to completion by the
\* direct router.
C15_Witness ==
    /\ request = Request(TRUE, "dict", "other")
    /\ executor = "router"
    /\ pc = "done"
    /\ taskState = "completed"

\* The cancel() calls recorded in the trace.
CancelEntries == {i \in Indices : trace[i].by = "cancel"}

\* C16: whichever strategy runs the task, a cancel that reaches the
\* dispatcher is the direct router's: every cancelled status it emits
\* carries "Query routing cancelled", never the ReAct strategy's message.
C16_CancelIsRoutersCancel ==
    \A i \in CancelEntries :
        /\ trace[i].state = "cancelled"
        /\ trace[i].text = <<"Query routing cancelled">>
        /\ trace[i].text # <<"ReAct routing task was cancelled.">>

\* A task run by the ReAct strategy, cancelled while that strategy was
\* about to add its artifact.
C16_Witness ==
    /\ executor = "react"
    /\ taskState = "cancelled"
    /\ \E i \in CancelEntries : trace[i].at = "react_artifact"

\* C17: a cancel() of the direct router processed while the task is not in
\* a terminal state makes exactly one updater call: an accepted status
\* update for the task's id with state cancelled and the message
\* "Query routing cancelled"; it adds no artifact.
C17_CancelEmitsOneCancelled ==
    [][(executor \in {"router", "react"} /\ cancels' = cancels + 1
            /\ ~IsTerminal(taskState))
        => /\ trace' = Append(trace,
                    [by |-> "cancel", op |-> "status", state |-> "cancelled",
                     text |-> <<"Query routing cancelled">>, ok |-> TRUE,
                     at |-> pc, task |-> TaskId,
                     context |-> MessageContextId])
           /\ taskState' = "cancelled"
           /\ artifacts' = artifacts]_vars

\* A cancel processed during the relay, right after a working status of the
\* remote agent was relayed.
C17_Witness ==
    /\ executor = "router"
    /\ cancels = 1
    /\ Len(trace) >= 2
    /\ trace[Len(trace)].by = "cancel"
    /\ trace[Len(trace)].at = "stream"
    /\ trace[Len(trace) - 1].at = "stream"
    /\ trace[Len(trace) - 1].state = "working"
    /\ taskState = "cancelled"

\* C18: a cancel() on the MedGemma or Clinical executor ends with the
\* UnsupportedOperation error, makes no updater call and leaves the task's
\* state and artifacts as they were; the task is not cancelled by it.
C18_LeafCancelUnsupported ==
    [][(executor \in {"medgemma", "clinical"} /\ cancels' # cancels)
        => /\ cancelResult' = "UnsupportedOperationError"
           /\ trace' = trace
           /\ taskState' = taskState
           /\ artifacts' = artifacts
           /\ taskState' # "cancelled"]_vars

\* A cancel refused while the Clinical executor awaits its model call.
C18_Witness ==
    /\ executor = "clinical"
    /\ cancels = 1
    /\ cancelResult = "UnsupportedOperationError"
    /\ pc = "leaf_call"
    /\ taskState = "working"
    /\ CancelEntries = {}

\* execute's except handler emitted failed with `cause` in the message, and
\* the task is failed unless a cancel() was processed after that.
EndedFailedWith(cause) ==
    \E i \in Indices :
        /\ Emitted(i)
        /\ trace[i].at = "fail"
        /\ trace[i].state = "failed"
        /\ trace[i].text = <<"Routing failed">> \o cause
        /\ \/ taskState = "failed"
           \/ \E j \in CancelEntries : j > i

\* C19: when the selected agent's card cannot be fetched (unreachable,
\* timeout, invalid descriptor), no client is created, no streamed call is
\* opened, no artifact is added, and execute ends with a failed status
\* whose message carries the cause.
C19_CardFailureFailsTask ==
    card.outcome \in CardFetchFailures =>
        /\ calls.card = 1 /\ calls.client = 0 /\ calls.send = 0
        /\ yielded = <<>>
        /\ artifacts = <<>>
        /\ pc \in {"fail", "done"}
        /\ pc = "done" => EndedFailedWith(<<card.outcome, card.url>>)

\* The fetched descriptor was not a valid card; the task ended failed.
C19_Witness ==
    /\ card.outcome = "invalid_card"
    /\ pc = "done"
    /\ taskState = "failed"
    /\ artifacts = <<>>

\* C20: when the resolved card declares no JSON-RPC transport, the card is
\* refused: send_message is never called (no event is consumed) and execute
\* ends with a failed status.
C20_UnsupportedTransportNeverSends ==
    card.outcome = "unsupported_transport" =>
        /\ calls.send = 0
        /\ calls.client = 0
        /\ yielded = <<>>
        /\ pc \in {"fail", "done"}
        /\ pc = "done" => EndedFailedWith(<<card.outcome, card.url>>)

\* A card without JSON-RPC was resolved; the task ended failed, nothing sent.
C20_Witness ==
    /\ card.outcome = "unsupported_transport"
    /\ calls.card = 1
    /\ calls.send = 0
    /\ pc = "done"
    /\ taskState = "failed"

\* The streamed call raised: execute's except handler was entered with the
\* stream's error.
StreamFailed ==
    \E i \in Indices :
        /\ trace[i].by = "execute"
        /\ trace[i].at = "fail"
        /\ trace[i].text = <<"Routing failed", "stream error">>

\* C21: when the streamed call to the remote agent fails, execute ends with
\* a failed status naming the failure and the task is failed; within one
\* invocation the card is resolved at most once and the streamed call is
\* opened at most once.
C21_StreamFailureEndsFailed ==
    executor = "router" =>
        /\ calls.card <= 1
        /\ calls.send <= 1
        /\ (StreamFailed /\ Returned) => EndedFailedWith(<<"stream error">>)

\* The classification of this invocation has been made.
Classified == executor = "router" /\ llm # NoLlm

\* C22: one classification issues exactly one language-model call; when
\* that call fails or its response cannot be parsed, the decision is at once
\* the default agent's, without a second call.
C22_OneLlmCallNoRetry ==
    /\ calls.classify <= 1
    /\ Classified =>
        /\ calls.classify = 1
        /\ LlmFailedOrUnparseable => routing = ParseFailureDecision

\* The model call failed on the network; the default decision is in place
\* after that one call.
C22_Witness ==
    /\ Classified
    /\ llm.kind = "network_error"
    /\ calls.classify = 1
    /\ pc = "resolve"
    /\ routing.agent = "medgemma"

\* An accepted status update or artifact written to the task by execute.
ExecuteWrote(i) ==
    /\ trace[i].by = "execute"
    /\ trace[i].op \in {"status", "artifact"}
    /\ trace[i].ok

\* C23: no other invocation writes to the task between the first and the
\* last write of one invocation: no cancel() writes its status between two
\* writes of the RouterAgentExecutor.execute that runs the task.
C23_NoInterleavedWriters ==
    executor = "router" =>
        \A i \in CancelEntries :
            ~ \E j, k \in Indices :
                /\ j < i /\ i < k
                /\ ExecuteWrote(j)
                /\ ExecuteWrote(k)

\* execute's initial working update has been emitted.
InitialWorkingEmitted ==
    \E i \in Indices : Emitted(i) /\ trace[i].at = "working"

\* C24: after execute's initial working update the local task is never
\* moved back to submitted, whatever states the relayed events carry.
C24_NeverBackToSubmitted ==
    (executor = "router" /\ InitialWorkingEmitted) => taskState # "submitted"

\* C25: execute adds no artifact to the task after a terminal status has
\* been emitted for it, also when the remote stream yields an artifact after
\* its own terminal status.
C25_NoArtifactAfterTerminal ==
    \A i \in Indices :
        (trace[i].by = "execute" /\ trace[i].op = "artifact" /\ trace[i].ok)
            => ~ \E j \in 1..(i - 1) : Emitted(j) /\ IsTerminal(trace[j].state)

\* The stream of the end-to-end scenario: working, one artifact, completed.
ScenarioStream ==
    <<StatusEvent("working", <<>>), ArtifactEvent("a1", <<"p1">>),
      StatusEvent("completed", <<>>)>>

\* The classifier's response names a registered agent.
SelectsRegistered ==
    /\ llm.kind = "ok"
    /\ llm.content.t = "object"
    /\ llm.content.agentKind = "string"
    /\ llm.content.agent \in DOMAIN agents

\* C26: when the classifier selects a registered agent X and X streams a
\* working status, one artifact A and a completed status, the query went to
\* X's registered url, the task is completed with exactly the one artifact
\* A (same parts), and execute ends normally without a completion or a
\* failure of its own.
C26_RoutedScenarioCompletes ==
    (executor = "router" /\ SelectsRegistered /\ yielded = ScenarioStream
        /\ pc # "stream")
    => /\ routing.agent = llm.content.agent
       /\ card.url = agents[llm.content.agent].url
       /\ calls.send = 1
       /\ taskState = "completed"
       /\ artifacts = <<Artifact("a1", <<"p1">>)>>
       /\ pc \in {"after", "done"}
       /\ ~EnteredFail
       /\ ~CompleteCalled

\* The clinical agent was selected, streamed the scenario, and execute is
\* over.
C26_Witness ==
    /\ SelectsRegistered
    /\ llm.content.agent = "clinical"
    /\ card.url = "http://localhost:9102"
    /\ yielded = ScenarioStream
    /\ pc = "done"
    /\ taskState = "completed"
    /\ Len(artifacts) = 1

\* The reply holds a task whose last artifact has a first part that is text.
LastArtifactStartsWithText ==
    /\ reply.kind = "task"
    /\ Len(reply.artifacts) > 0
    /\ LET last == reply.artifacts[Len(reply.artifacts)]
       IN /\ Len(last.parts) > 0
          /\ last.parts[1].root
          /\ last.parts[1].kind = "text"
          /\ last.parts[1].hasText

\* C27: when /chat returns a response, it carries the id of the task in the
\* reply, and its text is the text of the first part of the task's last
\* artifact; when the task has no artifact, or that part is missing or not
\* text, the text is the fixed placeholder, which is not empty.
C27_ChatReturnsFinalText ==
    chat = "response" =>
        /\ chatResponse.status = "200"
        /\ reply.kind = "task" => chatResponse.correlation_id = reply.id
        /\ IF LastArtifactStartsWithText
           THEN chatResponse.response
                    = reply.artifacts[Len(reply.artifacts)].parts[1].text
           ELSE /\ chatResponse.response
                    = "(No content was returned from the agent network)"
                /\ chatResponse.response # ""

\* Two artifacts: the first starts with text, the last with a part that is
\* not text; /chat answered with the placeholder.
C27_Witness ==
    /\ chat = "response"
    /\ reply.kind = "task"
    /\ Len(reply.artifacts) = 2
    /\ reply.artifacts[1].parts = <<TextPart("the answer")>>
    /\ reply.artifacts[2].parts = <<WirePart(TRUE, "data", FALSE, ""), TextPart("the answer")>>
    /\ chatResponse.response = Placeholder

\* execute is over and its stream ended without an exception: the code after
\* the loop ran (complete() was called, or it was skipped and execute
\* returned without entering the except handler).
OverAfterNormalStreamEnd ==
    /\ executor = "router"
    /\ calls.send = 1
    /\ Returned
    /\ CompleteCalled \/ ~EnteredFail

\* A terminal status of the remote stream was relayed.
RelayedTerminal ==
    \E i \in Indices : Emitted(i) /\ trace[i].at = "stream"
                        /\ IsTerminal(trace[i].state)

\* complete() was accepted, and the task is completed unless a cancel() was
\* processed after that.
CompletedByRouter ==
    \E i \in Indices :
        /\ Emitted(i)
        /\ trace[i].at = "complete"
        /\ trace[i].state = "completed"
        /\ \/ taskState = "completed"
           \/ \E j \in CancelEntries : j > i

\* C28: after the remote stream has ended without an exception, the router
\* calls complete() itself exactly when no completed status was relayed;
\* a stream that closed without any terminal status leaves the task
\* completed.
C28_CompletesIffNotRelayed ==
    OverAfterNormalStreamEnd =>
        /\ CompleteCalled <=> ~RelayedCompleted
        /\ ~RelayedTerminal => CompletedByRouter

\* The remote agent sent one working status and closed the stream; the
\* router completed the task itself.
C28_Witness ==
    /\ OverAfterNormalStreamEnd
    /\ Len(yielded) = 1
    /\ yielded[1].kind = "status"
    /\ yielded[1].state = "working"
    /\ CompleteCalled
    /\ pc = "done"
    /\ taskState = "completed"

\* The terminal status events the remote stream has yielded, in order.
YieldedTerminals ==
    SelectSeq(yielded, LAMBDA e : e.kind = "status" /\ IsTerminal(e.state))

\* The last writer of the task's state is a cancel(): no status of execute
\* was accepted after it.
CancelWroteLast ==
    \E j \in CancelEntries : \A k \in Indices : k > j => ~Emitted(k)

\* C29: when the remote stream's terminal status is failed or cancelled,
\* the local task is in that same state from then on (a cancel() processed
\* later aside), and execute's own completion after the stream never
\* completes the task.
C29_RemoteTerminalKept ==
    (executor = "router" /\ YieldedTerminals # <<>>
        /\ YieldedTerminals[1].state \in {"failed", "cancelled"})
    => /\ taskState = YieldedTerminals[1].state \/ CancelWroteLast
       /\ CompletedCount = 0
       /\ TerminalCount = 1

\* The remote agent reported failed and closed the stream; the router's
\* complete() was called and refused, and the task is still failed.
C29_Witness ==
    /\ executor = "router"
    /\ Len(yielded) = 1
    /\ yielded[1].kind = "status"
    /\ yielded[1].state = "failed"
    /\ CompleteCalled
    /\ Returned
    /\ taskState = "failed"

\* The entries that create and enqueue a task.
TaskCreations == {i \in Indices : trace[i].op = "task"}

\* C30: once RouterAgentExecutor.execute is past its entry, a task was
\* created and enqueued exactly if the context carried none, and it was the
\* first thing done; with a current task none was created, and every status
\* update and artifact of execute carries that task's id and context id.
C30_NewTaskOnlyWhenNone ==
    (executor = "router" /\ pc # "start") =>
        /\ (TaskCreations # {}) <=> ~ctxHasTask
        /\ TaskCreations \subseteq {1}
        /\ ctxHasTask =>
            \A i \in Indices :
                trace[i].by = "execute" =>
                    /\ trace[i].op \in {"status", "artifact"}
                    /\ trace[i].task = "task-1"
                    /\ trace[i].context = "context-1"
        /\ ~ctxHasTask =>
            \A i \in Indices :
                trace[i].by = "execute" =>
                    /\ trace[i].task = "new-task-1"
                    /\ trace[i].context = "new-context-1"

\* An existing task was reused: statuses and an artifact were written for
\* it and no task was created.
C30_Witness ==
    /\ executor = "router"
    /\ ctxHasTask
    /\ pc = "done"
    /\ TaskCreations = {}
    /\ artifacts # <<>>
    /\ taskState = "completed"

\* The event has a text part that is not empty.
HasNonEmptyText(e) == \E k \in 1..Len(e.texts) : e.texts[k] # ""

\* "Routed to <agent> (<state>)".
SynthesizedStatusText(agent, state) == <<"Routed to", agent, state>>

ConsumesUnknown ==
    /\ pc = "stream"
    /\ yielded' = Append(yielded, UnknownEvent)

\* C32: an iteration of the relay loop over an event that is neither a
\* StatusEvent nor an ArtifactEvent leaves the task's state and artifacts
\* and the produced_any and completed flags as they were, makes no
\* TaskUpdater call (nothing is emitted) and stays in the loop.
C32_UnknownEventIgnored ==
    [][ConsumesUnknown =>
            UNCHANGED <<taskState, artifacts, produced_any, completed,
                        trace, updTerminal, pc, err>>]_vars

\* A stream of events of neither kind only has ended: nothing was relayed,
\* so the router added its own summary and completed the task.
C32_Witness ==
    /\ executor = "router"
    /\ pc = "done"
    /\ yielded = <<UnknownEvent, UnknownEvent>>
    /\ StreamCalls = <<>>
    /\ ~produced_any /\ ~completed
    /\ artifacts = <<SummaryArtifact(routing.agent)>>
    /\ taskState = "completed"

\* The status updates cancel() emitted for a context without a current task.
NoTaskCancelEntries ==
    {i \in Indices : trace[i].by = "cancel" /\ trace[i].task = "None"}

\* C33: RouterAgentExecutor.cancel called for a context without a current
\* task emits no status event: no cancelled status that carries no task
\* id, and none for any task, is ever written by it.
C33_CancelWithoutTaskEmitsNothing ==
    /\ NoTaskCancelEntries = {}
    /\ (cancels > 0 /\ pc = "start" /\ ~ctxHasTask) => trace = <<>>

\* What execute emitted, in order: each accepted status update by its state
\* and each accepted artifact by its name.
ExecuteEmissions ==
    LET own == SelectSeq(trace, LAMBDA t : t.by = "execute" /\ t.ok
                                            /\ t.op \in {"status", "artifact"})
    IN [i \in 1..Len(own) |->
            IF own[i].op = "status" THEN <<"status", own[i].state>>
                                    ELSE <<"artifact", own[i].text[1]>>]

\* The emissions of a react run in which no step raises.
ReactEmissions ==
    <<(<<"status", "working">>), (<<"artifact", "react_final_response">>),
      (<<"status", "completed">>)>>

\* C34: in react mode what execute has emitted is at every moment the
\* beginning of: a working status, one artifact named react_final_response,
\* a completed status, possibly cut short by a failed status that ends it;
\* once execute is over it is the whole of it or ends with the failed status;
\* and the classifier was never called, no agent card resolved, no client
\* created and no remote stream opened.
C34_ReactPlaceholderSequence ==
    executor = "react" =>
        /\ \E k \in 0..3 :
            \/ ExecuteEmissions = SubSeq(ReactEmissions, 1, k)
            \/ ExecuteEmissions =
                    Append(SubSeq(ReactEmissions, 1, k), <<"status", "failed">>)
        /\ Returned =>
            \/ ExecuteEmissions = ReactEmissions
            \/ ExecuteEmissions[Len(ExecuteEmissions)] = <<"status", "failed">>
        /\ calls = NoCalls
        /\ llm = NoLlm /\ routing = NoDecision /\ card = NoCard
        /\ yielded = <<>>

\* A react run that is over: the working status, the one artifact and the
\* completed status were emitted.
C34_Witness ==
    /\ executor = "react"
    /\ pc = "done"
    /\ ExecuteEmissions = ReactEmissions
    /\ Len(artifacts) = 1
    /\ artifacts[1].name = "react_final_response"

\* Every call the invocation in focus recorded carries its own task id and
\* context id, and so does every call the suspended one recorded.
OwnIdsOnly ==
    /\ \A i \in Indices :
        /\ trace[i].task = TaskIdOf(focus, ctxHasTask)
        /\ trace[i].context = ContextIdOf(focus, ctxHasTask)
    /\ \A i \in 1..Len(peer.trace) :
        /\ peer.trace[i].task = TaskIdOf(3 - focus, peer.ctxHasTask)
        /\ peer.trace[i].context = ContextIdOf(3 - focus, peer.ctxHasTask)

\* The flags of the invocation in focus say what its own relay loop did.
FlagsFromOwnStream ==
    /\ completed <=> RelayedCompleted
    /\ produced_any <=> \E i \in Indices : trace[i].at = "stream" /\ trace[i].ok

\* Its routing decision is the one made from its own classifier call.
RoutingFromOwnCall ==
    routing # NoDecision => routing = RouteQuery(CallLlm(llm))

\* What holds of the invocation in focus whatever the other one did.
UnaffectedByPeer ==
    /\ OwnIdsOnly
    /\ FlagsFromOwnStream
    /\ RoutingFromOwnCall
    /\ OverAfterNormalStreamEnd => (CompleteCalled <=> ~RelayedCompleted)

\* C35: of two execute invocations on different tasks that interleave at
\* their awaits, a step of one leaves the locals of the other (its flags,
\* routing decision, recorded calls) as they were, a switch between them
\* hands each its own locals back, no step changes the agent registry, and
\* after every step each invocation's calls carry its own task id and
\* context id and its flags, routing decision and completion follow from its
\* own classifier call and its own stream.
C35_InvocationsIndependent ==
    [][/\ registry' = registry
       /\ focus' = focus => peer' = peer
       /\ focus' # focus => (peer' = Locals /\ Locals' = peer)
       /\ UnaffectedByPeer']_vars

\* Both invocations are over, one after its remote agent reported
\* completed, the other after an empty stream that the router completed
\* itself, each routed to a different agent for a task of its own.
C35_Witness ==
    /\ pc = "done" /\ peer.pc = "done"
    /\ completed /\ produced_any
    /\ ~peer.completed /\ ~peer.produced_any
    /\ yielded = <<StatusEvent("completed", <<>>)>>
    /\ peer.yielded = <<>>
    /\ peer.artifacts = <<SummaryArtifact(peer.routing.agent)>>
    /\ routing.agent # peer.routing.agent
    /\ trace # <<>> /\ peer.trace # <<>>
    /\ trace[1].task # peer.trace[1].task

\* The artifacts execute appended from inside the relay loop, in order.
RelayedArtifacts ==
    LET added == SelectSeq(StreamCalls, LAMBDA t : t.op = "artifact" /\ t.ok)
    IN [i \in 1..Len(added) |->
            Artifact(added[i].text[1], SubSeq(added[i].text, 2, Len(added[i].text)))]

\* C36: once execute is over after its remote stream raised, the artifacts
\* of the task are the relayed ones and no router_summary was added,
\* complete() was not called, and the task ended failed with a failed
\* status that names the stream's error.
C36_StreamRaiseKeepsRelayed ==
    (executor = "router" /\ StreamFailed /\ Returned) =>
        /\ artifacts = RelayedArtifacts
        /\ \A i \in 1..Len(artifacts) : artifacts[i].name # "router_summary"
        /\ ~CompleteCalled
        /\ EndedFailedWith(<<"stream error">>)

\* The conversation is over.
ConversationOver == session.state \in {"completed", "cancelled"}

\* C37: once a session is completed or cancelled, no message handed to
\* process_message, a cancel command included, changes the session's state.
C37_CompletedAndCancelledAbsorbing ==
    [][ConversationOver => session'.state = session.state]_vars

====
